---- MODULE Spec2Model ----
(***************************************************************************)
(* The market-making decision engine of                                    *)
(* src/python/juliaos_backtesting/market_making_strategy.py:               *)
(* RLMarketMakingStrategy (the base variant) and                           *)
(* AdaptiveRLMarketMakingStrategy (the adaptive variant).                  *)
(*                                                                         *)
(* Python floats are modelled as exact rationals <<n, d>> (d > 0, lowest   *)
(* terms) together with +inf, -inf and nan: every formula below is about   *)
(* the real-number value of the code's expressions, floating-point         *)
(* rounding is not modelled.                                               *)
(***************************************************************************)
EXTENDS Integers, Sequences, FiniteSets, TLC

VARIABLES
    cfg,                   \* the strategy parameters of the run (class attributes, lines 28-46, 281-283)
    rl_volatility_factor,  \* line 49
    rl_spread_factor,      \* line 50
    rl_inventory_factor,   \* line 51
    position,              \* the engine's open position as the strategy reads it (self.position)
    bar,                   \* the bar the last step ran on (self.price[-1], self.atr[-1], ...)
    inventory,             \* line 65
    position_value,        \* line 68
    available_capital,     \* line 67
    has_inventory_ratio,   \* whether the attribute self.inventory_ratio exists (it is not set by init)
    inventory_ratio,       \* lines 109, 113
    current_spread,        \* line 71
    bid_levels,            \* line 72
    ask_levels,            \* line 73
    orders,                \* the engine calls (close / buy / sell) of the last step, in call order
    status,                \* "ok", or "raised" once a step has raised an exception
    states,                \* line 292
    rewards,               \* line 294
    memory,                \* line 297
    rl_params,             \* line 301
    daily_pnl,             \* line 81
    daily_pnl_before,      \* history: self.daily_pnl as the last _calculate_reward call found it
    appended,              \* history: every experience ever passed to _add_to_memory, in call order
    n_explored             \* history: number of _explore_action calls so far

vars == <<cfg, rl_volatility_factor, rl_spread_factor, rl_inventory_factor, position, bar,
          inventory, position_value, available_capital, has_inventory_ratio, inventory_ratio,
          current_spread, bid_levels, ask_levels, orders, status, states, rewards, memory,
          rl_params, daily_pnl, daily_pnl_before, appended, n_explored>>

----------------------------------------------------------------------------
(* Bounds of the model *)

\* capacity of the experience memory; the code's value is 1000 (line 298), scaled down
memory_max_size == 2

\* number of direct _add_to_memory calls explored
MaxAppends == 4

\* number of _explore_action calls explored
MaxExplore == 2

\* length of the trailing window of daily_pnl the sharpe_ratio reward looks at; the code's
\* value is 20 (lines 387-388), scaled down
reward_window == 3

\* number of direct _calculate_reward calls explored
MaxRewardCalls == 5

----------------------------------------------------------------------------
(* Exact rational arithmetic standing for the code's float arithmetic *)

Abs(x) == IF x < 0 THEN -x ELSE x

Sign(x) == IF x < 0 THEN -1 ELSE IF x > 0 THEN 1 ELSE 0

RECURSIVE Gcd(_, _)
Gcd(a, b) == IF b = 0 THEN a ELSE Gcd(b, a % b)

\* a float: <<n, d>> with d > 0 in lowest terms, or one of the three non-finite values
\* +inf = <<1, 0>>, -inf = <<-1, 0>>, nan = <<0, 0>>
Rat(n, d) ==
    IF d = 0 THEN <<Sign(n), 0>>
    ELSE LET g == Gcd(Abs(n), Abs(d))
             s == IF d < 0 THEN -1 ELSE 1
         IN  <<(s * n) \div g, Abs(d) \div g>>

R(i) == <<i, 1>>

NaN == <<0, 0>>
IsNaN(a)    == a = NaN
IsFinite(a) == a[2] # 0

\* IEEE-754 arithmetic on these values (numpy float64: a division by zero gives inf or
\* nan, it does not raise)
RAdd(a, b) ==
    IF IsFinite(a) /\ IsFinite(b)
    THEN LET g == Gcd(a[2], b[2])
         IN  Rat(a[1] * (b[2] \div g) + b[1] * (a[2] \div g), (a[2] \div g) * b[2])
    ELSE IF IsNaN(a) \/ IsNaN(b) THEN NaN
    ELSE IF ~IsFinite(a) /\ ~IsFinite(b) THEN (IF a[1] = b[1] THEN a ELSE NaN)
    ELSE IF IsFinite(a) THEN b ELSE a
RSub(a, b) == RAdd(a, <<-b[1], b[2]>>)
RMul(a, b) == Rat(a[1] * b[1], a[2] * b[2])
RInv(b) ==
    IF ~IsFinite(b) THEN (IF IsNaN(b) THEN NaN ELSE <<0, 1>>)
    ELSE IF b[1] = 0 THEN <<1, 0>>
    ELSE Rat(b[2], b[1])
RDiv(a, b) == RMul(a, RInv(b))
RAbs(a)    == <<Abs(a[1]), a[2]>>
\* comparisons: every comparison with nan is false
RLt(a, b)  ==
    /\ ~IsNaN(a) /\ ~IsNaN(b)
    /\ IF ~IsFinite(a) /\ ~IsFinite(b) THEN a[1] < b[1] ELSE a[1] * b[2] < b[1] * a[2]
RLe(a, b)  ==
    /\ ~IsNaN(a) /\ ~IsNaN(b)
    /\ IF ~IsFinite(a) /\ ~IsFinite(b) THEN a[1] <= b[1] ELSE a[1] * b[2] <= b[1] * a[2]

\* Python's builtin min(a, b): a unless b < a; max(a, b): a unless b > a
PyMin(a, b) == IF RLt(b, a) THEN b ELSE a
PyMax(a, b) == IF RLt(a, b) THEN b ELSE a

Zero == R(0)
One  == R(1)
Half == <<1, 2>>

----------------------------------------------------------------------------
(* Configuration: the class attributes, overridable per run *)

\* the class defaults, lines 28-46
DefaultParams ==
    [ variant                      |-> "base",
      base_spread_pct              |-> <<3, 20>>,
      order_levels                 |-> 3,
      order_amount                 |-> <<1, 10>>,
      max_capital                  |-> R(10000),
      inventory_target_pct         |-> R(50),
      enable_dynamic_spreads       |-> TRUE,
      enable_inventory_skew        |-> TRUE,
      min_spread_pct               |-> <<1, 20>>,
      max_spread_pct               |-> R(2),
      volatility_adjustment_factor |-> R(50),
      stop_loss_threshold          |-> <<3, 500>>,
      take_profit_threshold        |-> <<1, 200>>,
      reward_function              |-> "sharpe_ratio" ]

\* the run configurations explored: the defaults with some parameters overridden
\* (Backtest.run / Backtest.optimize keyword arguments, the config file of data_bridge.py)
BaseSpreads   == {Zero, <<3, 20>>}
Targets       == {R(50), R(100)}
Thresholds    == {<<(<<3, 500>>), (<<1, 200>>)>>, <<(<<1, 5>>), (<<1, 4>>)>>}

BaseConfigs ==
    { [DefaultParams EXCEPT !.base_spread_pct = b, !.inventory_target_pct = t,
                            !.enable_dynamic_spreads = d, !.enable_inventory_skew = k,
                            !.stop_loss_threshold = th[1], !.take_profit_threshold = th[2],
                            !.order_levels = IF th[1] = <<3, 500>> THEN 3 ELSE 2] :
        b \in BaseSpreads, t \in Targets, d \in BOOLEAN, k \in BOOLEAN, th \in Thresholds }

AdaptiveConfigs ==
    { [DefaultParams EXCEPT !.variant = "adaptive", !.reward_function = r,
                            !.base_spread_pct = IF r = "profit" THEN Zero ELSE <<3, 20>>] :
        r \in {"sharpe_ratio", "profit", "risk_adjusted"} }

Configs == BaseConfigs \cup AdaptiveConfigs

\* values the three rl_* class attributes (volatility, spread, inventory) start a run with:
\* the default 1.0 (lines 49-51) and the values 0.5, 1.5 and 0.1 that the optimizer's grid
\* (0.5, 1.5, 0.1) hands to Backtest.optimize as the candidates of each factor
\* (local_backtesting/optimizer.py lines 100-102)
FactorInits ==
    { <<One, One, One>>, <<(<<1, 10>>), (<<3, 2>>), Half>>, <<(<<3, 2>>), Half, (<<3, 2>>)>>,
      <<Half, (<<1, 10>>), (<<1, 10>>)>> }

----------------------------------------------------------------------------
(* Market bars and the engine's position, the strategy's inputs *)

Prices == {80, 100, 125}
Atrs   == {Zero, R(2), R(40)}
Bars   == { [close |-> p, atr |-> a, bb_width |-> RDiv(RMul(R(4), a), R(p))] :
            p \in Prices, a \in Atrs }
NoBar  == [close |-> 0, atr |-> Zero, bb_width |-> Zero]

\* bars of the warm-up: calculate_atr and calculate_bollinger_bands return nan until their
\* rolling windows are full (lines 252, 263-264)
WarmUpBars == { [close |-> p, atr |-> NaN, bb_width |-> NaN] : p \in Prices }

\* the bars that may follow bar prev: the warm-up bars are the first bars of the data
NextBars(prev) == IF prev = NoBar \/ IsNaN(prev.atr) THEN Bars \cup WarmUpBars ELSE Bars

\* position sizes the engine may fill (units, signed: negative is short)
LongSizes  == {25, 100}
ShortSizes == {50, 100}

NoPosition == [size |-> 0, entry_price |-> 0]

IsOpen(pos) == pos.size # 0
IsLong(pos) == pos.size > 0

----------------------------------------------------------------------------
(* RLMarketMakingStrategy.next, lines 84-201 *)

\* line 89: self.atr[-1] / self.price[-1]
current_volatility(b) == RDiv(b.atr, R(b.close))

\* lines 93-94
vol_adjusted_spread(c, b, fv) ==
    RMul(c.base_spread_pct,
         RAdd(One, RMul(RMul(c.volatility_adjustment_factor, current_volatility(b)), fv)))


\* mutant: the upper bound is not applied
spread_before_rl_no_max(c, b, fv) ==
    IF c.enable_dynamic_spreads
    THEN PyMax(c.min_spread_pct, vol_adjusted_spread(c, b, fv))
    ELSE c.base_spread_pct

\* lines 91-99: the value self.current_spread holds before line 102
spread_before_rl(c, b, fv) ==
    IF c.enable_dynamic_spreads
    THEN PyMax(c.min_spread_pct, PyMin(vol_adjusted_spread(c, b, fv), c.max_spread_pct))
    ELSE c.base_spread_pct

\* line 102
spread_after_rl(c, b, fv, fs) == RMul(spread_before_rl(c, b, fv), fs)

\* lines 105-113: [inventory, position_value, inventory_ratio]
inventory_state(pos, b, capital) ==
    IF IsOpen(pos)
    THEN LET pv    == RMul(R(pos.size), R(b.close))
             total == RAdd(pv, capital)
         IN  [inventory |-> pos.size, position_value |-> pv,
              inventory_ratio |-> RMul(RDiv(pv, total), R(100))]
    ELSE [inventory |-> 0, position_value |-> Zero, inventory_ratio |-> Zero]

\* lines 121-125
inventory_deviation(c, ratio) == RSub(ratio, c.inventory_target_pct)

\* mutant: the deviation is normalised by 100 instead of 50
skew_factor_per_100(c, ratio, fi) == RMul(RDiv(RAbs(inventory_deviation(c, ratio)), R(100)), fi)

skew_factor(c, ratio, fi) == RMul(RDiv(RAbs(inventory_deviation(c, ratio)), R(50)), fi)


\* mutant: the two branches are exchanged
skews_exchanged(c, ratio, fi) ==
    IF c.enable_inventory_skew
    THEN LET h == RMul(skew_factor(c, ratio, fi), Half)
         IN  IF RLt(Zero, inventory_deviation(c, ratio))
             THEN <<RSub(One, h), RAdd(One, h)>>
             ELSE <<RAdd(One, h), RSub(One, h)>>
    ELSE <<One, One>>

\* lines 116-134: <<bid_skew, ask_skew>>
skews(c, ratio, fi) ==
    IF c.enable_inventory_skew
    THEN LET h == RMul(skew_factor(c, ratio, fi), Half)
         IN  IF RLt(Zero, inventory_deviation(c, ratio))
             THEN <<RAdd(One, h), RSub(One, h)>>
             ELSE <<RSub(One, h), RAdd(One, h)>>
    ELSE <<One, One>>

bid_skew(c, ratio, fi) == skews(c, ratio, fi)[1]
ask_skew(c, ratio, fi) == skews(c, ratio, fi)[2]


\* mutant: the level factor shrinks with the level
level_factor_shrinking(level) == RSub(One, RMul(R(level - 1), Half))

\* line 146
level_factor(level) == RAdd(One, RMul(R(level - 1), Half))


\* mutant: the bounds of line 163 are not applied
size_adjustment_unclamped(c, ratio, fi) ==
    LET inventory_factor == RDiv(RSub(c.inventory_target_pct, ratio), R(100))
    IN  RAdd(One, RMul(inventory_factor, fi))

\* lines 159-163
size_adjustment(c, ratio, fi) ==
    LET inventory_factor == RDiv(RSub(c.inventory_target_pct, ratio), R(100))
    IN  PyMax(Half, PyMin(RAdd(One, RMul(inventory_factor, fi)), <<3, 2>>))


\* mutant: the ask multiplier is the reciprocal of size_adjustment instead of 2 - size_adjustment
level_sizes_reciprocal(c, ratio, fi, level) ==
    LET base_size == RMul(c.order_amount, RDiv(One, R(level)))
    IN  IF c.enable_inventory_skew
        THEN <<RMul(base_size, size_adjustment(c, ratio, fi)),
               RMul(base_size, RDiv(One, size_adjustment(c, ratio, fi)))>>
        ELSE <<base_size, base_size>>

\* lines 153-166: <<bid_size, ask_size>> of a level
level_sizes(c, ratio, fi, level) ==
    LET base_size == RMul(c.order_amount, RDiv(One, R(level)))
    IN  IF c.enable_inventory_skew
        THEN <<RMul(base_size, size_adjustment(c, ratio, fi)),
               RMul(base_size, RSub(R(2), size_adjustment(c, ratio, fi)))>>
        ELSE <<base_size, base_size>>


\* mutant: the bid ladder lacks its last level
make_bid_levels_one_short(c, b, spread, ratio, fi) ==
    LET bid_spread == RMul(spread, bid_skew(c, ratio, fi))
    IN  [level \in 1..(c.order_levels - 1) |->
            <<RMul(R(b.close), RSub(One, RMul(bid_spread, level_factor(level)))),
              level_sizes(c, ratio, fi, level)[1]>>]

\* lines 137, 149, 169: the bid ladder, a sequence of <<price, size>>
make_bid_levels(c, b, spread, ratio, fi) ==
    LET bid_spread == RMul(spread, bid_skew(c, ratio, fi))
    IN  [level \in 1..c.order_levels |->
            <<RMul(R(b.close), RSub(One, RMul(bid_spread, level_factor(level)))),
              level_sizes(c, ratio, fi, level)[1]>>]

\* lines 138, 150, 170: the ask ladder
make_ask_levels(c, b, spread, ratio, fi) ==
    LET ask_spread == RMul(spread, ask_skew(c, ratio, fi))
    IN  [level \in 1..c.order_levels |->
            <<RMul(R(b.close), RAdd(One, RMul(ask_spread, level_factor(level)))),
              level_sizes(c, ratio, fi, level)[2]>>]


\* mutant: the long stop-loss and take-profit comparisons are non-strict
risk_closes_nonstrict(c, pos, b) ==
    /\ IsOpen(pos)
    /\ LET entry_price   == R(pos.entry_price)
           current_price == R(b.close)
       IN  IF IsLong(pos)
           THEN \/ RLe(current_price, RMul(entry_price, RSub(One, c.stop_loss_threshold)))
                \/ RLe(RMul(entry_price, RAdd(One, c.take_profit_threshold)), current_price)
           ELSE \/ RLt(RMul(entry_price, RAdd(One, c.stop_loss_threshold)), current_price)
                \/ RLt(current_price, RMul(entry_price, RSub(One, c.take_profit_threshold)))

\* mutant: a short position is checked with the long position's conditions
risk_closes_unmirrored(c, pos, b) ==
    /\ IsOpen(pos)
    /\ LET entry_price   == R(pos.entry_price)
           current_price == R(b.close)
       IN  \/ RLt(current_price, RMul(entry_price, RSub(One, c.stop_loss_threshold)))
           \/ RLt(RMul(entry_price, RAdd(One, c.take_profit_threshold)), current_price)

\* lines 173-198: whether the stop-loss / take-profit check closes the position
risk_closes(c, pos, b) ==
    /\ IsOpen(pos)
    /\ LET entry_price   == R(pos.entry_price)
           current_price == R(b.close)
       IN  IF IsLong(pos)
           THEN \/ RLt(current_price, RMul(entry_price, RSub(One, c.stop_loss_threshold)))
                \/ RLt(RMul(entry_price, RAdd(One, c.take_profit_threshold)), current_price)
           ELSE \/ RLt(RMul(entry_price, RAdd(One, c.stop_loss_threshold)), current_price)
                \/ RLt(current_price, RMul(entry_price, RSub(One, c.take_profit_threshold)))

\* the engine calls of a step, in call order
CloseBy(why)   == [op |-> "close", size |-> Zero, by |-> why]
BuyOrder(sz)   == [op |-> "buy",   size |-> sz,   by |-> "ladder"]
SellOrder(sz)  == [op |-> "sell",  size |-> sz,   by |-> "ladder"]

\* mutant: every level of the ladder is submitted, crossed or not
RECURSIVE SelectLevels_every_level(_, _, _)
SelectLevels_every_level(s, b, side) ==
    IF s = <<>> THEN <<>>
    ELSE <<(IF side = "bid" THEN BuyOrder(Head(s)[2]) ELSE SellOrder(Head(s)[2]))>>
            \o SelectLevels_every_level(Tail(s), b, side)

\* the elements of sequence s that satisfy Keep, in order
RECURSIVE SelectLevels(_, _, _)
SelectLevels(s, b, side) ==
    IF s = <<>> THEN <<>>
    ELSE LET crosses == IF side = "bid" THEN RLe(R(b.close), Head(s)[1])
                                        ELSE RLe(Head(s)[1], R(b.close))
             rest    == SelectLevels(Tail(s), b, side)
         IN  IF crosses
             THEN <<(IF side = "bid" THEN BuyOrder(Head(s)[2]) ELSE SellOrder(Head(s)[2]))>> \o rest
             ELSE rest


\* mutant: the inventory signs of the two reversal tests are exchanged
needs_reversal_wrong_sign(pos, inv, bids, asks, b) ==
    /\ IsOpen(pos)
    /\ \/ inv > 0 /\ \E i \in 1..Len(bids) : RLe(R(b.close), bids[i][1])
       \/ inv < 0 /\ \E i \in 1..Len(asks) : RLe(asks[i][1], R(b.close))

\* lines 208-226: whether _execute_orders closes the position to reverse it
needs_reversal(pos, inv, bids, asks, b) ==
    /\ IsOpen(pos)
    /\ \/ inv < 0 /\ \E i \in 1..Len(bids) : RLe(R(b.close), bids[i][1])
       \/ inv > 0 /\ \E i \in 1..Len(asks) : RLe(asks[i][1], R(b.close))

\* lines 203-236
_execute_orders(pos, inv, bids, asks, b) ==
    (IF needs_reversal(pos, inv, bids, asks, b) THEN <<CloseBy("reversal")>> ELSE <<>>)
        \o SelectLevels(bids, b, "bid") \o SelectLevels(asks, b, "ask")


\* mutant: the risk check closes the position but does not return
step_orders_no_return(c, pos, inv, bids, asks, b) ==
    (IF risk_closes(c, pos, b) THEN <<CloseBy("risk")>> ELSE <<>>)
        \o _execute_orders(pos, inv, bids, asks, b)

\* lines 172-201: the engine calls of one step of next
step_orders(c, pos, inv, bids, asks, b) ==
    IF risk_closes(c, pos, b) THEN <<CloseBy("risk")>>
    ELSE _execute_orders(pos, inv, bids, asks, b)


\* mutant: the spread is widened while a position is open
base_next_spread_from_position(c, fv, fs, fi, pos, b, capital) ==
    LET inv    == inventory_state(pos, b, capital)
        spread == IF IsOpen(pos) THEN RMul(R(2), spread_after_rl(c, b, fv, fs))
                                 ELSE spread_after_rl(c, b, fv, fs)
        bids   == make_bid_levels(c, b, spread, inv.inventory_ratio, fi)
        asks   == make_ask_levels(c, b, spread, inv.inventory_ratio, fi)
    IN  [ current_spread  |-> spread,
          inventory       |-> inv.inventory,
          position_value  |-> inv.position_value,
          inventory_ratio |-> inv.inventory_ratio,
          bid_levels      |-> bids,
          ask_levels      |-> asks,
          orders          |-> step_orders(c, pos, inv.inventory, bids, asks, b) ]

\* lines 88-201 as a function of what the step reads: the fields it assigns and its engine calls
base_next(c, fv, fs, fi, pos, b, capital) ==
    LET inv    == inventory_state(pos, b, capital)
        spread == spread_after_rl(c, b, fv, fs)
        bids   == make_bid_levels(c, b, spread, inv.inventory_ratio, fi)
        asks   == make_ask_levels(c, b, spread, inv.inventory_ratio, fi)
    IN  [ current_spread  |-> spread,
          inventory       |-> inv.inventory,
          position_value  |-> inv.position_value,
          inventory_ratio |-> inv.inventory_ratio,
          bid_levels      |-> bids,
          ask_levels      |-> asks,
          orders          |-> step_orders(c, pos, inv.inventory, bids, asks, b) ]

----------------------------------------------------------------------------
(* The execution engine between two bars (external; the interface of spec section 6) *)

HasOp(ords, op) == \E i \in 1..Len(ords) : ords[i].op = op

\* The positions the strategy may find open at the next bar, given the calls of the last
\* step: the engine decides the fills.  Orders fill at the next open, taken to be the
\* last close; a close order empties the position; buys may leave it long, sells short;
\* orders may also be left unfilled.
EngineOutcomes(pos, ords, b) ==
    {IF HasOp(ords, "close") THEN NoPosition ELSE pos}
        \cup (IF HasOp(ords, "buy")
              THEN {[size |-> sz, entry_price |-> b.close] : sz \in LongSizes} ELSE {})
        \cup (IF HasOp(ords, "sell")
              THEN {[size |-> -sz, entry_price |-> b.close] : sz \in ShortSizes} ELSE {})

----------------------------------------------------------------------------
(* AdaptiveRLMarketMakingStrategy, lines 275-422 *)

\* lines 301-305, 363-367
params_of(fv, fs, fi) ==
    [volatility_factor |-> fv, spread_factor |-> fs, inventory_factor |-> fi]

\* lines 340-351
_get_state(c, b, ratio, spread, capital) ==
    [ price           |-> R(b.close),
      volatility      |-> current_volatility(b),
      bb_width        |-> b.bb_width,
      inventory_ratio |-> ratio,
      spread          |-> spread,
      capital_ratio   |-> RDiv(capital, c.max_capital) ]

\* the draws of np.random.uniform(-0.1, 0.1) explored, one per factor (lines 358-360)
Perturbations == { <<(<<-1, 10>>), (<<-1, 10>>), (<<-1, 10>>)>>,
                   <<(<<1, 20>>), (<<1, 20>>), (<<1, 20>>)>>,
                   <<(<<1, 20>>), (<<-1, 10>>), Zero>> }

\* lines 358-360: max(0.5, min(1.5, f * (1 + u)))
explored_factor(f, u) == PyMax(Half, PyMin(<<3, 2>>, RMul(f, RAdd(One, u))))


\* mutant: on overflow drops the newest entry instead of the oldest
memory_after_add_drop_newest(mem, experience) ==
    LET m == Append(mem, experience)
    IN  IF Len(m) > memory_max_size THEN SubSeq(m, 1, memory_max_size) ELSE m

\* lines 418-422
memory_after_add(mem, experience) ==
    LET m == Append(mem, experience)
    IN  IF Len(m) > memory_max_size THEN Tail(m) ELSE m

RECURSIVE RSum(_)
RSum(s) == IF s = <<>> THEN Zero ELSE RAdd(Head(s), RSum(Tail(s)))

\* np.mean
Mean(s) == RDiv(RSum(s), R(Len(s)))

\* the square of np.std (population variance)
Variance(s) ==
    LET m == Mean(s)
    IN  RDiv(RSum([i \in 1..Len(s) |-> RMul(RSub(s[i], m), RSub(s[i], m))]), R(Len(s)))

\* the integer square root of n >= 0, searched in lo..hi
RECURSIVE ISqrtIn(_, _, _)
ISqrtIn(n, lo, hi) ==
    IF lo >= hi THEN lo
    ELSE LET mid == (lo + hi + 1) \div 2
         IN  IF mid * mid <= n THEN ISqrtIn(n, mid, hi) ELSE ISqrtIn(n, lo, mid - 1)

ISqrt(n) == ISqrtIn(n, 0, 46340)

\* np.std from its square: the square root of a rational n/d >= 0, exact when it is
\* rational, else rounded down to floor(sqrt n) / ceil(sqrt d), which is > 0 when n > 0
RSqrt(a) ==
    LET sn == ISqrt(a[1])
        sd == ISqrt(a[2])
    IN  IF sd * sd = a[2] THEN Rat(sn, sd) ELSE Rat(sn, sd + 1)

\* lines 387-388: the trailing window of daily_pnl
pnl_window(dp) ==
    IF Len(dp) >= reward_window THEN SubSeq(dp, Len(dp) - reward_window + 1, Len(dp)) ELSE dp

\* lines 379-382
unrealized_pnl(pos, b) ==
    IF IsLong(pos)
    THEN RMul(RSub(R(b.close), R(pos.entry_price)), R(pos.size))
    ELSE RMul(RSub(R(pos.entry_price), R(b.close)), R(pos.size))


\* mutant: the sharpe_ratio branch divides by the standard deviation without testing it
_calculate_reward_no_std_guard(c, pos, b, pv, dp) ==
    IF ~IsOpen(pos) THEN Zero
    ELSE LET pnl == unrealized_pnl(pos, b)
         IN  IF c.reward_function = "sharpe_ratio"
             THEN IF Len(dp) > 1
                  THEN RDiv(Mean(pnl_window(dp)), RSqrt(Variance(pnl_window(dp))))
                  ELSE pnl
             ELSE IF c.reward_function = "risk_adjusted"
             THEN IF RLt(Zero, pv) THEN RDiv(pnl, pv) ELSE pnl
             ELSE pnl

\* lines 374-404: the reward
_calculate_reward(c, pos, b, pv, dp) ==
    IF ~IsOpen(pos) THEN Zero
    ELSE LET pnl == unrealized_pnl(pos, b)
         IN  IF c.reward_function = "sharpe_ratio"
             THEN IF Len(dp) > 1 /\ RLt(Zero, Variance(pnl_window(dp)))
                  THEN RDiv(Mean(pnl_window(dp)), RSqrt(Variance(pnl_window(dp))))
                  ELSE pnl
             ELSE IF c.reward_function = "risk_adjusted"
             THEN IF RLt(Zero, pv) THEN RDiv(pnl, pv) ELSE pnl
             ELSE pnl

\* lines 407-410
daily_pnl_after(dp, reward, new_day) ==
    IF Len(dp) = 0 \/ new_day
    THEN Append(dp, reward)
    ELSE [dp EXCEPT ![Len(dp)] = RAdd(dp[Len(dp)], reward)]

\* experiences a caller may pass to _add_to_memory directly
SyntheticState(p) == _get_state(DefaultParams, [close |-> p, atr |-> Zero, bb_width |-> Zero],
                                Zero, DefaultParams.base_spread_pct, DefaultParams.max_capital)
SyntheticExperiences ==
    { [state |-> SyntheticState(100), action |-> params_of(One, One, One),
       reward |-> R(r), next_state |-> SyntheticState(100 + r)] : r \in {0, 1} }

----------------------------------------------------------------------------
(* Initial state: the strategy object after init(), lines 53-82 and 285-305 *)

AfterInit(configs) ==
    /\ cfg \in configs
    /\ \E f \in FactorInits :
          /\ rl_volatility_factor = f[1]
          /\ rl_spread_factor = f[2]
          /\ rl_inventory_factor = f[3]
          /\ rl_params = params_of(f[1], f[2], f[3])
    /\ position = NoPosition
    /\ bar = NoBar
    /\ inventory = 0
    /\ position_value = Zero
    /\ available_capital = cfg.max_capital
    /\ has_inventory_ratio = FALSE
    /\ inventory_ratio = Zero
    /\ current_spread = cfg.base_spread_pct
    /\ bid_levels = <<>>
    /\ ask_levels = <<>>
    /\ orders = <<>>
    /\ status = "ok"
    /\ states = <<>>
    /\ rewards = <<>>
    /\ memory = <<>>
    /\ daily_pnl = <<>>
    /\ daily_pnl_before = <<>>
    /\ appended = <<>>
    /\ n_explored = 0

Init == AfterInit(Configs)

----------------------------------------------------------------------------
(* Actions *)


\* mutant: a step that submits a buy debits the capital
BaseStep_spending(b, pos) ==
    /\ \E r \in {base_next(cfg, rl_volatility_factor, rl_spread_factor,
                            rl_inventory_factor, pos, b, available_capital)} :
          /\ bar' = b
          /\ position' = pos
          /\ current_spread' = r.current_spread
          /\ inventory' = r.inventory
          /\ position_value' = r.position_value
          /\ inventory_ratio' = r.inventory_ratio
          /\ has_inventory_ratio' = TRUE
          /\ bid_levels' = r.bid_levels
          /\ ask_levels' = r.ask_levels
          /\ orders' = r.orders
          /\ available_capital' = IF HasOp(r.orders, "buy")
                                  THEN RSub(cfg.max_capital, R(b.close))
                                  ELSE available_capital
    /\ UNCHANGED <<cfg, rl_volatility_factor, rl_spread_factor, rl_inventory_factor,
                   status, states, rewards, memory, rl_params,
                   daily_pnl, daily_pnl_before, appended, n_explored>>

\* mutant: the step also perturbs the spread factor
BaseStep_perturbing(b, pos) ==
    /\ \E r \in {base_next(cfg, rl_volatility_factor, rl_spread_factor,
                            rl_inventory_factor, pos, b, available_capital)} :
          /\ bar' = b
          /\ position' = pos
          /\ current_spread' = r.current_spread
          /\ inventory' = r.inventory
          /\ position_value' = r.position_value
          /\ inventory_ratio' = r.inventory_ratio
          /\ has_inventory_ratio' = TRUE
          /\ bid_levels' = r.bid_levels
          /\ ask_levels' = r.ask_levels
          /\ orders' = r.orders
    /\ rl_spread_factor' = explored_factor(rl_spread_factor, <<1, 20>>)
    /\ UNCHANGED <<cfg, rl_volatility_factor, rl_inventory_factor,
                   available_capital, status, states, rewards, memory, rl_params,
                   daily_pnl, daily_pnl_before, appended, n_explored>>

\* RLMarketMakingStrategy.next (lines 84-201) on bar b with the engine reporting position pos
BaseStep(b, pos) ==
    /\ \E r \in {base_next(cfg, rl_volatility_factor, rl_spread_factor,
                            rl_inventory_factor, pos, b, available_capital)} :
          /\ bar' = b
          /\ position' = pos
          /\ current_spread' = r.current_spread
          /\ inventory' = r.inventory
          /\ position_value' = r.position_value
          /\ inventory_ratio' = r.inventory_ratio
          /\ has_inventory_ratio' = TRUE
          /\ bid_levels' = r.bid_levels
          /\ ask_levels' = r.ask_levels
          /\ orders' = r.orders
    /\ UNCHANGED <<cfg, rl_volatility_factor, rl_spread_factor, rl_inventory_factor,
                   available_capital, status, states, rewards, memory, rl_params,
                   daily_pnl, daily_pnl_before, appended, n_explored>>

\* RLMarketMakingStrategy.next on the next bar of a base-variant run
RLMarketMakingStrategy_next ==
    /\ cfg.variant = "base"
    /\ status = "ok"
    /\ \E b \in NextBars(bar), pos \in EngineOutcomes(position, orders, bar) : BaseStep(b, pos)

\* AdaptiveRLMarketMakingStrategy._explore_action (lines 353-367)
_explore_action ==
    /\ cfg.variant = "adaptive"
    /\ status = "ok"
    /\ n_explored < MaxExplore
    /\ \E u \in Perturbations :
          /\ rl_volatility_factor' = explored_factor(rl_volatility_factor, u[1])
          /\ rl_spread_factor' = explored_factor(rl_spread_factor, u[2])
          /\ rl_inventory_factor' = explored_factor(rl_inventory_factor, u[3])
          /\ rl_params' = params_of(rl_volatility_factor', rl_spread_factor',
                                    rl_inventory_factor')
    /\ n_explored' = n_explored + 1
    /\ UNCHANGED <<cfg, position, bar, inventory, position_value, available_capital,
                   has_inventory_ratio, inventory_ratio, current_spread, bid_levels,
                   ask_levels, orders, status, states, rewards, memory, daily_pnl,
                   daily_pnl_before, appended>>

\* AdaptiveRLMarketMakingStrategy._add_to_memory (lines 414-422)
_add_to_memory ==
    /\ cfg.variant = "adaptive"
    /\ status = "ok"
    /\ Len(appended) < MaxAppends
    /\ \E e \in SyntheticExperiences :
          /\ memory' = memory_after_add(memory, e)
          /\ appended' = Append(appended, e)
    /\ UNCHANGED <<cfg, rl_volatility_factor, rl_spread_factor, rl_inventory_factor,
                   position, bar, inventory, position_value, available_capital,
                   has_inventory_ratio, inventory_ratio, current_spread, bid_levels,
                   ask_levels, orders, status, states, rewards, rl_params, daily_pnl,
                   daily_pnl_before, n_explored>>

\* AdaptiveRLMarketMakingStrategy.next (lines 307-338) on the next bar of an adaptive run.
\* Line 312 calls _get_state, which reads self.inventory_ratio (line 348): an attribute
\* init() never assigns, so the read raises AttributeError until a step has run line 109
\* or 113, and the step ends there without assigning anything.
AdaptiveRLMarketMakingStrategy_next ==
    /\ cfg.variant = "adaptive"
    /\ status = "ok"
    /\ IF ~has_inventory_ratio
       THEN /\ status' = "raised"
            /\ UNCHANGED <<rl_volatility_factor, rl_spread_factor, rl_inventory_factor,
                           position, bar, inventory, position_value, has_inventory_ratio,
                           inventory_ratio, current_spread, bid_levels, ask_levels,
                           orders, states, rewards, memory, rl_params, daily_pnl,
                           daily_pnl_before, appended, n_explored>>
       ELSE \E b \in NextBars(bar), pos \in EngineOutcomes(position, orders, bar),
               explore \in BOOLEAN, u \in Perturbations, new_day \in BOOLEAN :
            \E current_state \in {_get_state(cfg, b, inventory_ratio, current_spread,
                                             available_capital)},
               fv \in {IF explore THEN explored_factor(rl_volatility_factor, u[1])
                                  ELSE rl_volatility_factor},
               fs \in {IF explore THEN explored_factor(rl_spread_factor, u[2])
                                  ELSE rl_spread_factor},
               fi \in {IF explore THEN explored_factor(rl_inventory_factor, u[3])
                                  ELSE rl_inventory_factor} :
            \E params \in {IF explore THEN params_of(fv, fs, fi) ELSE rl_params},
               r \in {base_next(cfg, fv, fs, fi, pos, b, available_capital)} :
            \E reward \in {_calculate_reward(cfg, pos, b, r.position_value, daily_pnl)} :
                   /\ explore => n_explored < MaxExplore
                   /\ states' = Append(states, current_state)
                   /\ rl_volatility_factor' = fv
                   /\ rl_spread_factor' = fs
                   /\ rl_inventory_factor' = fi
                   /\ rl_params' = params
                   /\ n_explored' = IF explore THEN n_explored + 1 ELSE n_explored
                   /\ bar' = b
                   /\ position' = pos
                   /\ current_spread' = r.current_spread
                   /\ inventory' = r.inventory
                   /\ position_value' = r.position_value
                   /\ inventory_ratio' = r.inventory_ratio
                   /\ has_inventory_ratio' = TRUE
                   /\ bid_levels' = r.bid_levels
                   /\ ask_levels' = r.ask_levels
                   /\ orders' = r.orders
                   /\ rewards' = Append(rewards, reward)
                   /\ daily_pnl' = daily_pnl_after(daily_pnl, reward, new_day)
                   /\ daily_pnl_before' = daily_pnl
                   /\ IF Len(states) > 0
                      THEN \E experience \in {[state |-> states[Len(states)],
                                               action |-> params, reward |-> reward,
                                               next_state |-> current_state]} :
                              /\ memory' = memory_after_add(memory, experience)
                              /\ appended' = Append(appended, experience)
                      ELSE UNCHANGED <<memory, appended>>
                   /\ status' = status
    /\ UNCHANGED <<cfg, available_capital>>

Next ==
    \/ RLMarketMakingStrategy_next
    \/ AdaptiveRLMarketMakingStrategy_next
    \/ _explore_action
    \/ _add_to_memory

Spec == Init /\ [][Next]_vars

\* Runs of the base variant from the neutral configurations: inventory_target_pct 50 and
\* inventory skew enabled.  The backtest loop calls next once for every bar of the data,
\* so a run does not stop while the data holds a further bar, here one that differs from
\* the bar just processed.
NeutralConfigs ==
    { c \in BaseConfigs : c.inventory_target_pct = R(50) /\ c.enable_inventory_skew }

LiveInit == AfterInit(NeutralConfigs)

LiveNext == RLMarketMakingStrategy_next

\* the loop hands the strategy a bar that differs from the last one
NextBarFed ==
    /\ cfg.variant = "base"
    /\ status = "ok"
    /\ bar' \in NextBars(bar)
    /\ bar' # bar

LiveSpec == LiveInit /\ [][LiveNext]_vars /\ WF_bar(NextBarFed)

----------------------------------------------------------------------------
(* The step and the reward as functions of their inputs: next and _calculate_reward    *)
(* applied to positions and reward histories given directly, not produced by a run     *)

\* the class defaults (base_spread_pct 0.15, order_levels 3, order_amount 0.1, target 50)
\* with the two enable flags either way
ScenarioConfigs ==
    { [DefaultParams EXCEPT !.enable_dynamic_spreads = d, !.enable_inventory_skew = k] :
        d \in BOOLEAN, k \in BOOLEAN }

\* positions handed to next: at close 100 and capital 10000, 100 units are an inventory
\* ratio of 50, 400 units one of 80
PositionInputs ==
    {NoPosition} \cup {[size |-> sz, entry_price |-> 100] : sz \in {100, 400, -50}}

\* positions and bars handed to _calculate_reward
RewardPositions ==
    {NoPosition} \cup {[size |-> sz, entry_price |-> 100] : sz \in {1, -1}}
RewardBars == { [close |-> p, atr |-> Zero, bb_width |-> Zero] : p \in {99, 101} }

FnInit == AfterInit(ScenarioConfigs \cup AdaptiveConfigs)

\* RLMarketMakingStrategy.next (lines 84-201) on a bar, with a given position
next_with_position ==
    /\ cfg.variant = "base"
    /\ \E b \in Bars, pos \in PositionInputs : BaseStep(b, pos)

\* AdaptiveRLMarketMakingStrategy._calculate_reward (lines 369-412), called with the
\* position, the close price and self.position_value (line 107) of a bar; new_day is the
\* outcome of the date comparison of line 407
reward_call ==
    /\ cfg.variant = "adaptive"
    /\ Len(rewards) < MaxRewardCalls
    /\ \E b \in RewardBars, new_day \in BOOLEAN,
          pos \in (IF rewards = <<>> THEN RewardPositions ELSE {position}) :
          \E inv \in {inventory_state(pos, b, available_capital)} :
          \E reward \in {_calculate_reward(cfg, pos, b, inv.position_value, daily_pnl)} :
              /\ bar' = b
              /\ position' = pos
              /\ inventory' = inv.inventory
              /\ position_value' = inv.position_value
              /\ rewards' = Append(rewards, reward)
              /\ daily_pnl' = daily_pnl_after(daily_pnl, reward, new_day)
              /\ daily_pnl_before' = daily_pnl
    /\ UNCHANGED <<cfg, rl_volatility_factor, rl_spread_factor, rl_inventory_factor,
                   available_capital, has_inventory_ratio, inventory_ratio, current_spread,
                   bid_levels, ask_levels, orders, status, states, memory, rl_params,
                   appended, n_explored>>

FnNext ==
    \/ next_with_position
    \/ reward_call

FnSpec == FnInit /\ [][FnNext]_vars

----------------------------------------------------------------------------
(* Vocabulary of the properties *)

\* a step of next has run to its end on bar
Stepped == status = "ok" /\ bar # NoBar

HasCloseBy(why) == \E i \in 1..Len(orders) : orders[i] = CloseBy(why)
RiskClosed      == HasCloseBy("risk")
AnyClose        == HasOp(orders, "close")

LongOpen  == Stepped /\ position.size > 0
ShortOpen == Stepped /\ position.size < 0

\* the bar's close against the entry price scaled by (1 - x) and (1 + x)
BelowEntryLess(x) == RLt(R(bar.close), RMul(R(position.entry_price), RSub(One, x)))
AboveEntryPlus(x) == RLt(RMul(R(position.entry_price), RAdd(One, x)), R(bar.close))

\* the last n elements of sequence s
LastN(s, n) == SubSeq(s, Len(s) - n + 1, Len(s))

Min(a, b) == IF a < b THEN a ELSE b

InRange(x, lo, hi) == RLe(lo, x) /\ RLe(x, hi)

----------------------------------------------------------------------------
(* C1 *)

\* C1: the experience memory never holds more than memory_max_size entries, and it is
\* always the most recent entries passed to _add_to_memory, in insertion order (on
\* overflow the entry at index 0, the oldest, is the one removed).
C1_MemoryBoundedFifo ==
    /\ Len(memory) <= memory_max_size
    /\ memory = LastN(appended, Min(Len(appended), memory_max_size))

\* an append has overflowed the memory and the oldest entry, different from the one that
\* is now first, is gone
C1_Witness_Evicted ==
    /\ Len(appended) > memory_max_size
    /\ Len(memory) = memory_max_size
    /\ appended[1] # appended[2]
    /\ memory[1] # appended[1]

----------------------------------------------------------------------------
(* C2 - C5: the stop-loss / take-profit check *)

\* C2: with a long position open, the risk check closes it iff the close price is below
\* entry * (1 - stop_loss_threshold) or above entry * (1 + take_profit_threshold).
C2_LongRiskCloseIff ==
    LongOpen =>
        (RiskClosed <=> (\/ BelowEntryLess(cfg.stop_loss_threshold)
                         \/ AboveEntryPlus(cfg.take_profit_threshold)))

\* a long position whose close price is exactly entry * (1 - stop_loss_threshold): not closed
C2_Witness_AtStopLossBoundary ==
    /\ LongOpen
    /\ R(bar.close) = RMul(R(position.entry_price), RSub(One, cfg.stop_loss_threshold))
    /\ ~RiskClosed

AskCrossed == \E i \in 1..Len(ask_levels) : RLe(ask_levels[i][1], R(bar.close))
BidCrossed == \E i \in 1..Len(bid_levels) : RLe(R(bar.close), bid_levels[i][1])

C4_ShortRiskCloseIff ==
    ShortOpen =>
        (RiskClosed <=> (\/ AboveEntryPlus(cfg.stop_loss_threshold)
                         \/ BelowEntryLess(cfg.take_profit_threshold)))

\* a short position closed by its stop-loss at a price the long take-profit would not close
C4_Witness_ShortStopLoss ==
    /\ ShortOpen
    /\ AboveEntryPlus(cfg.stop_loss_threshold)
    /\ ~AboveEntryPlus(cfg.take_profit_threshold)
    /\ RiskClosed

\* C5: in a bar in which the risk check closes the position, the close is the only engine
\* call: no buy and no sell is submitted.
C5_RiskClosePreemptsQuoting ==
    (Stepped /\ RiskClosed) => orders = <<CloseBy("risk")>>

\* the risk check closed the position in a bar whose ladder had crossed levels, which
\* _execute_orders would have submitted
C5_Witness_ClosedWithCrossedLadder ==
    /\ Stepped
    /\ RiskClosed
    /\ BidCrossed
    /\ AskCrossed

----------------------------------------------------------------------------
(* C6 - C9: spread, skew and ladder of a step *)

\* the step's locals, as functions of the state the step leaves
StepBidSkew == bid_skew(cfg, inventory_ratio, rl_inventory_factor)
StepAskSkew == ask_skew(cfg, inventory_ratio, rl_inventory_factor)

\* C6: with dynamic spreads enabled, min_spread_pct <= max_spread_pct and volatility >= 0,
\* the spread before the multiplication by rl_spread_factor lies in
\* [min_spread_pct, max_spread_pct]; current_spread is that value times rl_spread_factor.
C6_SpreadClampedBeforeRl ==
    (/\ Stepped
     /\ cfg.enable_dynamic_spreads
     /\ RLe(cfg.min_spread_pct, cfg.max_spread_pct)
     /\ RLe(Zero, current_volatility(bar)))
        => \E x \in {RDiv(current_spread, rl_spread_factor)} :
              /\ InRange(x, cfg.min_spread_pct, cfg.max_spread_pct)
              /\ x = spread_before_rl(cfg, bar, rl_volatility_factor)

\* a step whose volatility-adjusted spread exceeded max_spread_pct and was clamped to it
C6_Witness_ClampedAtMax ==
    /\ Stepped
    /\ cfg.enable_dynamic_spreads
    /\ RLt(cfg.max_spread_pct, vol_adjusted_spread(cfg, bar, rl_volatility_factor))
    /\ current_spread = RMul(cfg.max_spread_pct, rl_spread_factor)

\* C7: with inventory skew enabled and a non-negative inventory factor, inventory_ratio
\* above the target gives ask_skew <= 1 <= bid_skew, below the target bid_skew <= 1 <= ask_skew;
\* the ladders of the step are built with these skews.
C7_SkewFavoursReducingSide ==
    (/\ Stepped
     /\ cfg.enable_inventory_skew
     /\ RLe(Zero, rl_inventory_factor))
        => /\ RLt(cfg.inventory_target_pct, inventory_ratio)
                => (RLe(StepAskSkew, One) /\ RLe(One, StepBidSkew))
           /\ RLt(inventory_ratio, cfg.inventory_target_pct)
                => (RLe(StepBidSkew, One) /\ RLe(One, StepAskSkew))
           /\ bid_levels[1][1] = RMul(R(bar.close), RSub(One, RMul(current_spread, StepBidSkew)))
           /\ ask_levels[1][1] = RMul(R(bar.close), RAdd(One, RMul(current_spread, StepAskSkew)))

\* a step with a long position whose inventory ratio is above the target: the ask side
\* strictly tighter, the bid side strictly wider
C7_Witness_ExcessInventory ==
    /\ LongOpen
    /\ cfg.enable_inventory_skew
    /\ RLt(cfg.inventory_target_pct, inventory_ratio)
    /\ RLt(StepAskSkew, One)
    /\ RLt(One, StepBidSkew)

\* C8: with inventory skew enabled, at every ladder level i the bid and ask sizes sum to
\* 2 * order_amount / i: the multipliers size_adjustment and 2 - size_adjustment sum to 2.
C8_SizeMultipliersSumToTwo ==
    (Stepped /\ cfg.enable_inventory_skew)
        => \A i \in 1..cfg.order_levels :
              /\ RAdd(bid_levels[i][2], ask_levels[i][2])
                    = RDiv(RMul(R(2), cfg.order_amount), R(i))
              /\ bid_levels[i][2]
                    = RMul(RDiv(cfg.order_amount, R(i)),
                           size_adjustment(cfg, inventory_ratio, rl_inventory_factor))

\* a step whose size adjustment is not 1: bid and ask sizes differ at the first level
C8_Witness_UnequalSizes ==
    /\ Stepped
    /\ cfg.enable_inventory_skew
    /\ Len(bid_levels) >= 2
    /\ bid_levels[2][2] # ask_levels[2][2]
    /\ RLt(Half, size_adjustment(cfg, inventory_ratio, rl_inventory_factor))
    /\ RLt(size_adjustment(cfg, inventory_ratio, rl_inventory_factor), <<3, 2>>)

\* the distance of a ladder price from the bar's close
Distance(level) == RAbs(RSub(level[1], R(bar.close)))

\* C9 as claimed: on each side of every ladder built by next, level i+1 is at least as far
\* from the close as level i.  (The comparison is Python's >=, false when a price is nan.)
C9_LadderWidensMonotonically ==
    Stepped =>
        /\ Len(bid_levels) = cfg.order_levels
        /\ Len(ask_levels) = cfg.order_levels
        /\ \A i \in 1..(cfg.order_levels - 1) :
              /\ RLe(Distance(bid_levels[i]), Distance(bid_levels[i + 1]))
              /\ RLe(Distance(ask_levels[i]), Distance(ask_levels[i + 1]))

----------------------------------------------------------------------------
(* C10 *)

FactorInBounds(f) == InRange(f, Half, <<3, 2>>)

\* C10 as claimed: in every state of a run of the adaptive variant each of the three
\* tunable factors lies in [0.5, 1.5].
C10_FactorsWithinBounds ==
    cfg.variant = "adaptive"
        => /\ FactorInBounds(rl_volatility_factor)
           /\ FactorInBounds(rl_spread_factor)
           /\ FactorInBounds(rl_inventory_factor)

----------------------------------------------------------------------------
(* C11 - C14: inventory ratio, errors, warm-up *)

\* C11 as claimed: after every bar inventory_ratio lies in [0, 100], and with a position
\* open it equals position_value / (position_value + available_capital) * 100.
C11_InventoryRatioIsPercentage ==
    Stepped =>
        /\ InRange(inventory_ratio, Zero, R(100))
        /\ IsOpen(position) =>
              inventory_ratio
                  = RMul(RDiv(position_value, RAdd(position_value, available_capital)), R(100))

\* C12 as claimed: no step of either variant raises an error, the first bar after init
\* included.
C12_EveryStepCompletes == status # "raised"

\* C13 as claimed: in a bar whose ATR is nan (warm-up) the step submits no buy and no sell
\* order.
C13_NoQuoteWithoutAtr ==
    (Stepped /\ IsNaN(bar.atr)) => (~HasOp(orders, "buy") /\ ~HasOp(orders, "sell"))

\* C14 as claimed: with a position open and position_value + available_capital = 0, the
\* step leaves inventory_ratio = 0.
C14_ZeroTotalValueGivesZeroRatio ==
    (Stepped /\ IsOpen(position) /\ RAdd(position_value, available_capital) = Zero)
        => inventory_ratio = Zero

----------------------------------------------------------------------------
(* C15: the sharpe_ratio reward *)

\* _calculate_reward has been called; its result is the last element of rewards
RewardCalled == cfg.variant = "adaptive" /\ rewards # <<>>
LastReward   == rewards[Len(rewards)]

\* the trailing recorded daily rewards the call looked at
TrailingBefore == LastN(daily_pnl_before, Min(Len(daily_pnl_before), reward_window))

\* C15: with reward policy sharpe_ratio and an open position, the reward is the raw PnL
\* when fewer than 2 daily rewards are recorded or the standard deviation of the trailing
\* ones is zero; otherwise it is their mean divided by their standard deviation, which
\* is > 0, and the result is finite.
C15_SharpeFallsBackToPnl ==
    (RewardCalled /\ cfg.reward_function = "sharpe_ratio" /\ IsOpen(position))
        => IF Len(daily_pnl_before) < 2 \/ Variance(TrailingBefore) = Zero
           THEN LastReward = unrealized_pnl(position, bar)
           ELSE /\ RLt(Zero, RSqrt(Variance(TrailingBefore)))
                /\ LastReward = RDiv(Mean(TrailingBefore), RSqrt(Variance(TrailingBefore)))
                /\ IsFinite(LastReward)

\* a call that found at least 2 recorded daily rewards, all equal (standard deviation
\* zero), and returned the raw PnL, which differs from their mean
C15_Witness_ZeroStdFallback ==
    /\ RewardCalled
    /\ cfg.reward_function = "sharpe_ratio"
    /\ IsOpen(position)
    /\ Len(daily_pnl_before) >= 2
    /\ Variance(TrailingBefore) = Zero
    /\ LastReward = unrealized_pnl(position, bar)
    /\ LastReward # Mean(TrailingBefore)

----------------------------------------------------------------------------
(* C16, C17: the two example scenarios *)

\* the bar's close times the fraction n/d
CloseTimes(n, d) == RMul(R(bar.close), <<n, d>>)

\* C16: with base_spread_pct 0.15, 3 levels, order_amount 0.1, dynamic spreads disabled,
\* spread factor 1 and inventory_ratio = target = 50, a step leaves the bid ladder
\* (0.85 p, 0.1), (0.775 p, 0.05), (0.70 p, 0.1/3) and the ask ladder (1.15 p, 0.1),
\* (1.225 p, 0.05), (1.30 p, 0.1/3), p being the close.
C16_ExampleLadder ==
    (/\ Stepped
     /\ cfg.base_spread_pct = <<3, 20>> /\ cfg.order_levels = 3 /\ cfg.order_amount = <<1, 10>>
     /\ ~cfg.enable_dynamic_spreads
     /\ rl_spread_factor = One
     /\ inventory_ratio = R(50) /\ cfg.inventory_target_pct = R(50))
        => /\ bid_levels = << <<CloseTimes(17, 20), <<1, 10>>>>,
                              <<CloseTimes(31, 40), <<1, 20>>>>,
                              <<CloseTimes(7, 10),  <<1, 30>>>> >>
           /\ ask_levels = << <<CloseTimes(23, 20), <<1, 10>>>>,
                              <<CloseTimes(49, 40), <<1, 20>>>>,
                              <<CloseTimes(13, 10), <<1, 30>>>> >>

\* the scenario of C16 with inventory skew enabled, the ratio of 50 being that of a long
\* position worth as much as the available capital
C16_Witness_NeutralLadder ==
    /\ Stepped
    /\ cfg.base_spread_pct = <<3, 20>> /\ cfg.order_levels = 3 /\ cfg.order_amount = <<1, 10>>
    /\ ~cfg.enable_dynamic_spreads
    /\ cfg.enable_inventory_skew
    /\ rl_spread_factor = One
    /\ LongOpen /\ position_value = available_capital
    /\ inventory_ratio = R(50) /\ cfg.inventory_target_pct = R(50)
    /\ bid_levels[3] = <<CloseTimes(7, 10), <<1, 30>>>>

\* C17: with inventory skew enabled, inventory_ratio 80, target 50 and inventory factor 1
\* the step computes deviation 30, skew_factor 0.6, ask_skew 0.7 and bid_skew 1.3, and
\* builds its first ladder level with them.
C17_ExampleSkew ==
    (/\ Stepped
     /\ cfg.enable_inventory_skew
     /\ inventory_ratio = R(80) /\ cfg.inventory_target_pct = R(50)
     /\ rl_inventory_factor = One)
        => /\ inventory_deviation(cfg, inventory_ratio) = R(30)
           /\ skew_factor(cfg, inventory_ratio, rl_inventory_factor) = <<3, 5>>
           /\ StepAskSkew = <<7, 10>>
           /\ StepBidSkew = <<13, 10>>
           /\ bid_levels[1][1] = RMul(R(bar.close), RSub(One, RMul(current_spread, <<13, 10>>)))
           /\ ask_levels[1][1] = RMul(R(bar.close), RAdd(One, RMul(current_spread, <<7, 10>>)))

\* the scenario of C17 in a step with a positive spread: the ask side is nearer to the
\* close than the bid side
C17_Witness_SkewedLadder ==
    /\ Stepped
    /\ cfg.enable_inventory_skew
    /\ inventory_ratio = R(80) /\ cfg.inventory_target_pct = R(50)
    /\ rl_inventory_factor = One
    /\ RLt(Zero, current_spread)
    /\ RLt(Distance(ask_levels[1]), Distance(bid_levels[1]))

----------------------------------------------------------------------------
(* C18 - C20 *)

\* C18: after every bar processed by next, bars in which the risk check closes the
\* position included, bid_levels and ask_levels hold exactly order_levels entries, each
\* priced from that bar's close with that bar's spread and skews.
C18_LaddersRebuiltEveryBar ==
    Stepped =>
        /\ Len(bid_levels) = cfg.order_levels
        /\ Len(ask_levels) = cfg.order_levels
        /\ \A i \in 1..cfg.order_levels :
              /\ bid_levels[i][1]
                    = RMul(R(bar.close),
                           RSub(One, RMul(RMul(current_spread, StepBidSkew), level_factor(i))))
              /\ ask_levels[i][1]
                    = RMul(R(bar.close),
                           RAdd(One, RMul(RMul(current_spread, StepAskSkew), level_factor(i))))

\* a bar in which the risk check closed a position entered at another price, and whose
\* three-level ladder straddles this bar's close
C18_Witness_RebuiltOnRiskClose ==
    /\ Stepped
    /\ RiskClosed
    /\ position.entry_price # bar.close
    /\ Len(bid_levels) = 3 /\ Len(ask_levels) = 3
    /\ RLt(bid_levels[3][1], R(bar.close))
    /\ RLt(R(bar.close), ask_levels[3][1])

\* the size multipliers of a ladder level, read back from the ladder
BidMultiplier(i) == RDiv(bid_levels[i][2], RDiv(cfg.order_amount, R(i)))
AskMultiplier(i) == RDiv(ask_levels[i][2], RDiv(cfg.order_amount, R(i)))

\* C19: with inventory skew enabled, at every level the bid size multiplier
\* (size_adjustment) and the ask size multiplier (2 - size_adjustment) lie in [0.5, 1.5],
\* whatever the inventory ratio, and the step does not raise.
C19_SizeAdjustmentClamped ==
    (bar # NoBar /\ cfg.variant = "base" /\ cfg.enable_inventory_skew)
        => /\ status = "ok"
           /\ \A i \in 1..cfg.order_levels :
                 /\ InRange(BidMultiplier(i), Half, <<3, 2>>)
                 /\ InRange(AskMultiplier(i), Half, <<3, 2>>)

\* a step with an inventory ratio below 0 whose raw size adjustment, above 1.5, was
\* clamped to 1.5
C19_Witness_ClampedOutOfRange ==
    /\ Stepped
    /\ cfg.enable_inventory_skew
    /\ RLt(inventory_ratio, Zero)
    /\ RLt(<<3, 2>>, RAdd(One, RMul(RDiv(RSub(cfg.inventory_target_pct, inventory_ratio), R(100)),
                                    rl_inventory_factor)))
    /\ BidMultiplier(1) = <<3, 2>>
    /\ AskMultiplier(1) = Half

\* C20 as claimed: with dynamic spreads disabled, current_spread / rl_spread_factor lies in
\* [min_spread_pct, max_spread_pct].
C20_StaticSpreadClamped ==
    (Stepped /\ ~cfg.enable_dynamic_spreads)
        => InRange(RDiv(current_spread, rl_spread_factor), cfg.min_spread_pct, cfg.max_spread_pct)

----------------------------------------------------------------------------
(* C21 - C22: the tunable factors *)

FactorsOf == <<rl_volatility_factor, rl_spread_factor, rl_inventory_factor>>

\* C21: no step changes a configuration value, and a step changes a tunable factor only
\* if it is an exploration of the adaptive variant (a step of the base variant and a
\* non-exploring step of the adaptive variant leave the three factors unchanged).
C21_FactorsChangeOnlyWhenExploring ==
    [][ /\ cfg' = cfg
        /\ FactorsOf' # FactorsOf
              => (cfg.variant = "adaptive" /\ n_explored' = n_explored + 1) ]_vars

\* a step of the base variant that submitted orders, after which the factors, not the
\* defaults, are still those the run started with
C21_Witness_BaseStepKeepsFactors ==
    /\ Stepped
    /\ cfg.variant = "base"
    /\ orders # <<>>
    /\ rl_spread_factor # One
    /\ params_of(rl_volatility_factor, rl_spread_factor, rl_inventory_factor) = rl_params

\* a step that feeds one bar to AdaptiveRLMarketMakingStrategy.next
AdaptiveBarFed ==
    /\ cfg.variant = "adaptive"
    /\ status = "ok"
    /\ (status' = "raised" \/ Len(states') = Len(states) + 1)

----------------------------------------------------------------------------
(* C27 - C28: what the adaptive step records *)

\* bars fed to AdaptiveRLMarketMakingStrategy.next: those whose state was recorded
\* (line 313) and the one on which the step raised
AdaptiveBarsFed == Len(states) + (IF status = "raised" THEN 1 ELSE 0)

\* positions in appended of the experiences built by next (lines 331-338), as opposed to
\* those handed to _add_to_memory directly
RecordedByNext == { i \in 1..Len(appended) : appended[i] \notin SyntheticExperiences }

----------------------------------------------------------------------------
(* C23, C30: the reward of an open position *)

\* C23 as claimed: with reward policy risk_adjusted and an open position, long or short,
\* whose position_value is not zero, _calculate_reward returns PnL / position_value.
C23_RiskAdjustedDividesByPositionValue ==
    (/\ RewardCalled
     /\ cfg.reward_function = "risk_adjusted"
     /\ IsOpen(position)
     /\ position_value # Zero)
        => LastReward = RDiv(unrealized_pnl(position, bar), position_value)

\* C30 as claimed: with the raw-profit reward policy, the reward of an open short position
\* (signed size < 0) is positive when the close is below the entry price and negative
\* when it is above, and that of a long position is positive when the close is above.
C30_ShortProfitRewardSign ==
    (RewardCalled /\ cfg.reward_function = "profit" /\ IsOpen(position)) =>
        /\ (position.size < 0 /\ bar.close < position.entry_price) => RLt(Zero, LastReward)
        /\ (position.size < 0 /\ bar.close > position.entry_price) => RLt(LastReward, Zero)
        /\ (position.size > 0 /\ bar.close > position.entry_price) => RLt(Zero, LastReward)

----------------------------------------------------------------------------
(* C24: the spread *)

\* C24: after a bar, current_spread is a function of that bar's ATR and close, the
\* configuration and the tunable factors only: whatever the position, the inventory, the
\* memory and the spread of the bar before, it is spread_after_rl of those inputs.
C24_SpreadDependsOnBarConfigFactors ==
    Stepped => current_spread = spread_after_rl(cfg, bar, rl_volatility_factor,
                                                rl_spread_factor)

\* a step with a position open whose dynamic spread lies strictly between the two bounds
C24_Witness_OpenPositionDynamicSpread ==
    /\ Stepped
    /\ IsOpen(position)
    /\ cfg.enable_dynamic_spreads
    /\ RLt(cfg.min_spread_pct, vol_adjusted_spread(cfg, bar, rl_volatility_factor))
    /\ RLt(vol_adjusted_spread(cfg, bar, rl_volatility_factor), cfg.max_spread_pct)
    /\ RLt(Zero, current_spread)

----------------------------------------------------------------------------
(* C25 - C26: which levels of the ladder are submitted *)

NumOp(op)       == Cardinality({ i \in 1..Len(orders) : orders[i].op = op })
NumBidsCrossed  == Cardinality({ i \in 1..Len(bid_levels) :
                                   RLe(R(bar.close), bid_levels[i][1]) })
NumAsksCrossed  == Cardinality({ i \in 1..Len(ask_levels) :
                                   RLe(ask_levels[i][1], R(bar.close)) })

\* C25: in a bar with current_spread > 0, close > 0, bid_skew > 0 and ask_skew > 0, every
\* bid price is strictly below the close and every ask price strictly above it, and the
\* step submits no buy, no sell and no reversal close; in every bar a buy is submitted
\* only for a bid level whose price >= close and a sell only for an ask level whose
\* price <= close.
C25_UncrossedLadderSubmitsNothing ==
    Stepped =>
        /\ (/\ RLt(Zero, current_spread)
            /\ bar.close > 0
            /\ RLt(Zero, StepBidSkew)
            /\ RLt(Zero, StepAskSkew))
              => /\ \A i \in 1..Len(bid_levels) : RLt(bid_levels[i][1], R(bar.close))
                 /\ \A i \in 1..Len(ask_levels) : RLt(R(bar.close), ask_levels[i][1])
                 /\ ~HasOp(orders, "buy")
                 /\ ~HasOp(orders, "sell")
                 /\ ~HasCloseBy("reversal")
        /\ NumOp("buy") <= NumBidsCrossed
        /\ NumOp("sell") <= NumAsksCrossed

\* a step with a position open, a positive spread and both skews positive, whose ladder
\* of order_levels levels a side led to no engine call
C25_Witness_QuotedNothingSubmitted ==
    /\ LongOpen
    /\ RLt(Zero, current_spread)
    /\ RLt(Zero, StepBidSkew)
    /\ RLt(Zero, StepAskSkew)
    /\ Len(bid_levels) = cfg.order_levels
    /\ orders = <<>>

\* a run about to start with no position, inventory_target_pct = 50, inventory skew
\* enabled, positive spread bounds and the three factors within [0.5, 1.5]
NeutralStart ==
    /\ bar = NoBar
    /\ position = NoPosition
    /\ cfg.inventory_target_pct = R(50)
    /\ cfg.enable_inventory_skew
    /\ RLt(Zero, cfg.min_spread_pct)
    /\ RLt(Zero, cfg.max_spread_pct)
    /\ \A f \in {rl_volatility_factor, rl_spread_factor, rl_inventory_factor} :
          InRange(f, Half, <<3, 2>>)

\* C26 as claimed: a run that starts so, fed bars with positive prices, comes to a bar in
\* which a buy or a sell order is submitted (it leaves NO_POSITION for LONG or SHORT).
C26_ReachesLongOrShort ==
    NeutralStart => <>(HasOp(orders, "buy") \/ HasOp(orders, "sell"))

----------------------------------------------------------------------------
(* C29: the capital *)

\* C29: available_capital equals max_capital after init and after every step, whatever
\* orders were submitted or positions closed, and the capital_ratio of the RL state the
\* strategy would record, like that of every state it has recorded, is 1.0.
C29_CapitalNeverChanges ==
    /\ available_capital = cfg.max_capital
    /\ _get_state(cfg, bar, inventory_ratio, current_spread, available_capital).capital_ratio
          = One
    /\ \A i \in 1..Len(states) : states[i].capital_ratio = One

\* a step that closed a position to reverse it and submitted buys
C29_Witness_TradedCapitalIntact ==
    /\ Stepped
    /\ HasCloseBy("reversal")
    /\ HasOp(orders, "buy")
    /\ available_capital = cfg.max_capital

====
